---- MODULE Spec2Model ----
(***************************************************************************)
(* Model of the incremental crawl engine of steam-metadata-archive:        *)
(* steam_sync.py (main, fetch_json, fetch_text, parse_store_api,           *)
(* detect_protection, run_analyzer_subprocess, save_progress,              *)
(* git_autopush) and analyze_protection_1020790.py (analyze_app).          *)
(*                                                                         *)
(* Abstractions: texts are sets of atoms (see Atoms); a record keeps the   *)
(* title, the short description and the protection verdict; last_update    *)
(* (a wall-clock timestamp) is left out.  A process stop is modelled       *)
(* between the steps of main, never in the middle of one file write.       *)
(*                                                                         *)
(* Spec runs main.  CallSpec calls detect_protection, analyze_app, the     *)
(* price part of parse_store_api and build_header_candidates on their own, *)
(* on arguments drawn from bounded sets.                                   *)
(***************************************************************************)
EXTENDS Integers, Sequences, FiniteSets, TLC

\* ------------------------------------------------------------------ bounds
MaxLen == 3          \* longest identifier list the mirror returns
MaxStage == 4        \* rate-limit signals the upstream gives between two completed items
MaxBlocks == 2       \* labeled divs of a page handed to a classifier called on its own
MaxShots == 9        \* longest list of media URLs handed to build_header_candidates
MaxTasks == 7        \* most identifiers handed to run_test of steam_test.py

\* ------------------------------------------------------- program constants
BACKOFF_STEPS == <<600, 1800, 3600>>
MAX_ATTEMPTS == 3
\* steam_sync.py sets 1000; scaled down so that the cursor crosses a multiple
AUTO_PUSH_EVERY == 2
\* the cap of build_header_candidates: if len(out) >= 7
MaxCandidates == 7
\* steam_test.py
MAX_CONCURRENCY == 6

Ids == {1, 2}

Min(a, b) == IF a < b THEN a ELSE b

\* ------------------------------------------------------------------- texts
\* An atom stands for a piece of text:
\*   "denuvo"    the word denuvo, standing alone
\*   "denuvoid"  a longer word that contains denuvo
\*   "ubisoft"   a launcher phrase of the check list, standing alone
\*   "battleye"  an anti-cheat service name
\*   "plain"     text with none of the above
\*   "Ubisoft Connect"  a launcher phrase in mixed case, standing alone
Atoms == {"denuvo", "denuvoid", "ubisoft", "battleye", "plain", "Ubisoft Connect"}

\* str.lower()
Lower(a) == IF a = "Ubisoft Connect" THEN "ubisoft connect" ELSE a

\* 'denuvo' in text
HasDenuvo(a) == a \in {"denuvo", "denuvoid"}

\* re.search(r"\b" + phrase + r"\b", text) for some phrase of html_check_phrases
HasPhrase(a) == a \in {"denuvo", "ubisoft", "ubisoft connect"}

\* a in t for some a of anti
HasAnti(a) == a = "battleye"

\* A page: its labeled divs in document order (cls "drm" is a div whose class
\* matches drm[_\-\s]?notice, "anticheat" one that matches anticheat_section)
\* and the atoms of the text outside them.
Block(c, a) == [cls |-> c, text |-> a]
Page(bs, fr) == [blocks |-> bs, free |-> fr]
NoPage == Page(<<>>, {})

MainPages ==
    { Page(<<>>, {"plain"}),
      Page(<<Block("drm", "denuvo")>>, {"plain"}),
      Page(<<>>, {"denuvo"}),
      Page(<<Block("anticheat", "battleye")>>, {"plain"}) }

\* ---------------------------------------------------------- fetched values
\* What fetch_json hands to its caller when reading the detail endpoint: the
\* decoded body of a 200, the string "403", or None.
JVal(t, hid, suc, dat, ti, de) ==
    [t |-> t, has_id |-> hid, success |-> suc, has_data |-> dat,
     title |-> ti, desc |-> de]
JNone == JVal("null", FALSE, FALSE, FALSE, "", "plain")
JStr403 == JVal("str403", FALSE, FALSE, FALSE, "", "plain")
JEmptyObj == JVal("obj", FALSE, FALSE, FALSE, "", "plain")

JsonBodies ==
    { JVal("obj", TRUE, TRUE, TRUE, "A", "plain"),
      JVal("obj", TRUE, TRUE, TRUE, "B", "denuvo"),
      JVal("obj", TRUE, FALSE, FALSE, "", "plain"),
      JVal("obj", TRUE, TRUE, FALSE, "", "plain"),
      JEmptyObj, JNone, JStr403 }

\* What fetch_text hands to its caller: the body of a 200 (a page, the empty
\* string, or the text "403"), the string "403", or "".
HVal(t, p) == [t |-> t, page |-> p]
HEmpty == HVal("empty", NoPage)
HStr403 == HVal("str403", NoPage)
HtmlBodies == {HVal("page", p) : p \in MainPages} \cup {HEmpty, HStr403}

\* What fetch_json hands to fetch_all_mirror
MVal(t, l) == [t |-> t, ids |-> l]
MNone == MVal("null", <<>>)
MStr403 == MVal("str403", <<>>)
IdLists == UNION {[1..n -> Ids] : n \in 0..MaxLen}
MirrorBodies == {MVal("list", l) : l \in IdLists} \cup {MNone, MStr403}

\* One answer of the upstream to one request: st is "200" (status 200, body
\* decoded), "200bad" (status 200, decoding the body raises), "403", or "err"
\* (any other status, or the request raises).
Resp(s, b) == [st |-> s, body |-> b]
Responses(bodies, none) ==
    {Resp("200", b) : b \in bodies}
        \cup {Resp("200bad", none), Resp("403", none), Resp("err", none)}

\* --------------------------------------------------------- pure functions
\* FetchAttempt with a 403 handled like any other failed request
FetchAttemptNo403(r, n, rl, none) ==
    IF r.st = "200" THEN [done |-> TRUE, val |-> r.body]
    ELSE [done |-> n + 1 >= MAX_ATTEMPTS, val |-> none]

\* One pass of the retry loop of fetch_json / fetch_text: n requests were made
\* before this one, r is the answer to this one.  done says whether the call
\* returns now, val what it returns (rl: the string "403", none: None or "").
FetchAttempt(r, n, rl, none) ==
    IF r.st = "200" THEN [done |-> TRUE, val |-> r.body]
    ELSE IF r.st = "403" THEN [done |-> TRUE, val |-> rl]
    ELSE [done |-> n + 1 >= MAX_ATTEMPTS, val |-> none]

\* list.sort() on the identifiers of the mirror
RECURSIVE Insert(_, _)
Insert(x, s) ==
    IF s = <<>> THEN <<x>>
    ELSE IF x <= Head(s) THEN <<x>> \o s
    ELSE <<Head(s)>> \o Insert(x, Tail(s))

RECURSIVE Sort(_)
Sort(s) == IF s = <<>> THEN <<>> ELSE Insert(Head(s), Sort(Tail(s)))

\* MirrorAppids that falls back to a built-in list when the mirror fails
MirrorAppidsFallback(m) == IF m.t = "list" THEN Sort(m.ids) ELSE <<1>>

\* fetch_all_mirror's "data or []" and main's list comprehension and sort
MirrorAppids(m) == IF m.t = "list" THEN Sort(m.ids) ELSE <<>>

\* the base record parse_store_api builds, or None (ok = FALSE)
Base(o, ti, de) == [ok |-> o, title |-> ti, short_description |-> de]
BaseNone == Base(FALSE, "", "plain")

\* "js or {}"
OrEmpty(j) == IF j.t = "null" THEN JEmptyObj ELSE j

\* parse_store_api without its check of the data body
parse_store_api_no_data_check(j) ==
    IF ~j.has_id THEN BaseNone
    ELSE IF ~j.success THEN BaseNone
    ELSE Base(TRUE, j.title, j.desc)

parse_store_api(j) ==
    IF ~j.has_id THEN BaseNone              \* d = js.get(str(appid), {})
    ELSE IF ~j.success THEN BaseNone
    ELSE IF ~j.has_data THEN BaseNone
    ELSE Base(TRUE, j.title, j.desc)

\* info.get("price_overview"): None ("none"), an empty object ("empty"), or an
\* object whose keys initial and final are there or missing
PriceDict(hi, i, hf, f) ==
    [t |-> "dict", has_initial |-> hi, initial |-> i, has_final |-> hf, final |-> f]
NoPrice == [t |-> "none", has_initial |-> FALSE, initial |-> 0,
            has_final |-> FALSE, final |-> 0]
EmptyPrice == [t |-> "empty", has_initial |-> FALSE, initial |-> 0,
               has_final |-> FALSE, final |-> 0]

\* chosen that takes the discounted amount first
chosen_final_first(init, fin) == IF fin > 0 THEN fin ELSE init

\* chosen = init if init > 0 else fin
chosen(init, fin) == IF init > 0 THEN init ELSE fin

\* a text is the sequence of its characters
Chr(d) == <<"0", "1", "2", "3", "4", "5", "6", "7", "8", "9">>[d + 1]

\* the decimal digits of n >= 0
RECURSIVE Digits(_)
Digits(n) == IF n < 10 THEN <<Chr(n)>> ELSE Append(Digits(n \div 10), Chr(n % 10))

\* the "," option of the format spec: a comma before every group of three
\* digits, counted from the right
RECURSIVE Grouped(_)
Grouped(ds) ==
    IF Len(ds) <= 3 THEN ds
    ELSE Grouped(SubSeq(ds, 1, Len(ds) - 3)) \o <<",">>
             \o SubSeq(ds, Len(ds) - 2, Len(ds))

\* str.replace(a, b) for single characters
Replace(str, a, b) == [k \in DOMAIN str |-> IF str[k] = a THEN b ELSE str[k]]

Free == [price_display |-> <<"F", "r", "e", "e">>, price_normalized |-> 0]

\* the price fields parse_store_api builds (amounts below 2^53, which
\* f"{norm:,.0f}" prints exactly)
price_fields(price) ==
    IF price.t = "dict"
    THEN LET init == IF price.has_initial THEN price.initial ELSE 0
             fin == IF price.has_final THEN price.final ELSE 0
             ch == chosen(init, fin)
         IN  IF ch > 0
             THEN LET norm == ch \div 100
                  IN  [price_display |->
                           <<"R", "p", " ">> \o Replace(Grouped(Digits(norm)), ",", "."),
                       price_normalized |-> norm]
             ELSE Free
    ELSE Free

\* the loop of build_header_candidates with a cap that is checked too late
RECURSIVE ShotsLoopLateCap(_, _, _)
ShotsLoopLateCap(out, seen, rest) ==
    IF rest = <<>> THEN out
    ELSE IF Len(out) > MaxCandidates THEN out
    ELSE LET url == Head(rest)
             out1 == IF url \notin seen THEN Append(out, url) ELSE out
         IN  ShotsLoopLateCap(out1, seen \cup {url}, Tail(rest))

\* for url in screenshots: ... (lines 137-142)
RECURSIVE ShotsLoop(_, _, _)
ShotsLoop(out, seen, rest) ==
    IF rest = <<>> THEN out
    ELSE LET url == Head(rest)
             out1 == IF url \notin seen THEN Append(out, url) ELSE out
         IN  IF Len(out1) >= MaxCandidates THEN out1
             ELSE ShotsLoop(out1, seen \cup {url}, Tail(rest))

\* URLs are numbers; 0 is a header that is None or the empty string
build_header_candidates(header_url, screenshots) ==
    IF header_url # 0
    THEN ShotsLoop(<<header_url>>, {header_url}, screenshots)
    ELSE ShotsLoop(<<>>, {}, screenshots)

\* BeautifulSoup(html).get_text(): the atoms of the whole page
PlainText(h) ==
    IF h.t = "page"
    THEN h.page.free \cup {h.page.blocks[i].text : i \in DOMAIN h.page.blocks}
    ELSE {}

\* detect_protection that compares the text of the blocks as it is written
detect_protection_case_sensitive(txt, h) ==
    IF h.t # "empty"
    THEN LET blocks == {h.page.blocks[i].text : i \in DOMAIN h.page.blocks}
         IN  IF \E b \in blocks : HasDenuvo(b) THEN "true"
             ELSE IF \E b \in blocks : HasPhrase(b) THEN "true"
             ELSE "null"
    ELSE IF \E a \in txt : HasDenuvo(a) THEN "true"
    ELSE "null"

\* detect_protection(base, txt, raw_html): "true" or "null"
detect_protection(txt, h) ==
    IF h.t # "empty"
    THEN LET blocks == {Lower(h.page.blocks[i].text) : i \in DOMAIN h.page.blocks}
         IN  IF \E b \in blocks : HasDenuvo(b) THEN "true"
             ELSE IF \E b \in blocks : HasPhrase(b) THEN "true"
             ELSE "null"
    ELSE IF \E a \in txt : HasDenuvo(Lower(a)) THEN "true"
    ELSE IF \E a \in txt : HasAnti(Lower(a)) THEN "null"
    ELSE "null"

\* find_phrases_in_drm reads the first div whose class matches drm[_\-\s]?notice
FirstDrm(p) ==
    LET is == {i \in DOMAIN p.blocks : p.blocks[i].cls = "drm"}
    IN  IF is = {} THEN {}
        ELSE {Lower(p.blocks[CHOOSE i \in is : \A k \in is : i <= k].text)}

\* analyze_app that reports an explicit negative when it finds nothing
analyze_app_false(seen, p, de) ==
    LET t == {Lower(de)} \cup
                 (IF seen THEN {Lower(a) : a \in PlainText(HVal("page", p))} ELSE {})
        denuvo == \E a \in t : HasDenuvo(a)
        phrases == seen /\ \E b \in FirstDrm(p) : HasPhrase(b)
    IN  IF denuvo \/ phrases THEN "true" ELSE "false"

\* analyze_app's decision: seen is whether its own page fetch gave a page p,
\* de the short description of its own detail fetch ("plain" when that failed)
analyze_app(seen, p, de) ==
    LET t == {Lower(de)} \cup
                 (IF seen THEN {Lower(a) : a \in PlainText(HVal("page", p))} ELSE {})
        denuvo == \E a \in t : HasDenuvo(a)
        phrases == seen /\ \E b \in FirstDrm(p) : HasPhrase(b)
        anti == \E a \in t : HasAnti(a)
    IN  IF denuvo \/ phrases THEN "true"
        ELSE IF anti THEN "null"
        ELSE "null"

\* BackoffWait with the stage raised before the table is read
BackoffWaitAfterIncrement(stage) ==
    BACKOFF_STEPS[Min(stage + 1, Len(BACKOFF_STEPS) - 1) + 1]

\* the wait of one rate-limit signal at the given stage
BackoffWait(stage) == BACKOFF_STEPS[Min(stage, Len(BACKOFF_STEPS) - 1) + 1]

\* ------------------------------------------------------------------ state
Rec(ti, de, pr) == [present |-> TRUE, title |-> ti, short_description |-> de,
                    protection |-> pr]
NoRec == [present |-> FALSE, title |-> "", short_description |-> "plain",
          protection |-> "null"]
EmptyDb == [i \in Ids |-> NoRec]

VARIABLES
    pc,             \* position of the process in main ("stopped": not running)
    disk_db,        \* steam_data.json
    disk_prog,      \* progress.json: <<>> when the file is missing, else <<index>>
    appids, db, idx, backoff_stage,     \* locals of main
    js, base, html, prot, wait,         \* locals of main
    attempts,       \* requests made so far by the running fetch call
    reqlog,         \* history: the answers to those requests
    mirror,         \* what fetch_all_mirror's fetch_json returned
    run,            \* history of the running run of main
    hist,           \* history across runs
    env,            \* the trouble the surroundings make in this behaviour
    call,           \* one call of a function of the program on its own
    batch,          \* one run of steam_test.py's run_test
    lost            \* whether steam_data.json cannot be parsed, and the
                    \* identifiers it held a record for when it became so

vars == <<pc, disk_db, disk_prog, appids, db, idx, backoff_stage, js, base,
          html, prot, wait, attempts, reqlog, mirror, run, hist, env, call, batch, lost>>

\* The surroundings of a behaviour make one kind of trouble:
\*   "restarts"  the process is stopped and started again, any number of
\*               times, and the mirror's list changes between the runs
\*   "limits"    the upstream answers with rate-limit signals, up to
\*               MaxStage of them between two completed items
\*   "faults"    single requests fail (timeouts, 5xx, undecodable bodies),
\*               and at most one rate-limit signal comes between two
\*               completed items
Envs == {"restarts", "limits", "faults"}

\* load_json(PROGRESS_FILE, {"index": 0})["index"]: a progress file that is
\* missing or cannot be parsed is disk_prog = <<>>
LoadIndex == IF disk_prog = <<>> THEN 0 ELSE disk_prog[1]

\* load_json that gets a record for every identifier out of a document it
\* cannot parse
LoadCatalogSalvaged ==
    IF lost.unreadable
    THEN [j \in Ids |-> IF j \in lost.held THEN Rec("", "plain", "null") ELSE NoRec]
    ELSE disk_db

\* load_json(OUTPUT, {}): the default when the file is missing (a catalog
\* without records) or when reading it raises
LoadCatalog == IF lost.unreadable THEN EmptyDb ELSE disk_db

\* History of a run: the cursor it started from; the identifiers its cursor
\* advanced past; the identifiers it wrote a record for; the number of
\* rate-limit signals since its last completed item; whether the detail of the
\* current identifier was fetched; whether the page fetch of the current
\* identifier came back empty; how the iteration that just ended ended
\* ("retry", "skipped", "persisted"; "none" after the loop test) and whether
\* it called the publish hook; what the analyzer subprocess gave for the
\* current identifier ("notrun" when it was not called); whether a labeled
\* block of the page fetched for the current identifier holds a marker phrase
\* ("unseen" while no page was fetched); the record the catalog held for the
\* current identifier before the run wrote its record.
NewRun(c) == [startC |-> c, consumed |-> <<>>, written |-> {}, streak |-> 0,
              fetched |-> FALSE, degraded |-> FALSE, ended |-> "none",
              hook |-> FALSE, analyzer |-> "notrun", marked |-> "unseen",
              prev |-> NoRec]

\* History across runs: whether a run has loaded a list yet, the list of the
\* first run, whether every run so far iterated that same list, and the
\* positions of it whose identifier has been persisted or skipped as no-data.
NoHist == [started |-> FALSE, seq |-> <<>>, same |-> TRUE, handled |-> {}]
Diverged == [started |-> TRUE, seq |-> <<>>, same |-> FALSE, handled |-> {}]

\* A call of a function on its own: the function, its arguments, whether it
\* has returned, and what it returned.
Call(f, a) == [fn |-> f, arg |-> a, done |-> FALSE, ret |-> <<>>]
NoCall == Call("none", <<>>)

\* A run of run_test over the identifiers 1..n: what load_existing_data gave
\* (the identifiers that have a record), the position of run_test ("start",
\* "gather", "saved"), the state of each fetch_app task ("new": not yet past
\* the semaphore; "json", "html": inside it, waiting for that fetch; "none",
\* "rec": returned None or a record), the list results, the map existing, the
\* identifiers with a record in steam_data.json, and the number of times
\* save_data wrote it.
Batch(n, f) == [n |-> n, main |-> "start", task |-> [t \in 1..n |-> "new"],
                results |-> {}, loaded |-> {}, existing |-> {}, file |-> f,
                writes |-> 0]
NoBatch == Batch(0, {})

\* steam_data.json is readable
NoLoss == [unreadable |-> FALSE, held |-> {}]

Init ==
    /\ pc = "stopped"
    /\ disk_db = EmptyDb
    /\ disk_prog = <<>>
    /\ appids = <<>>
    /\ db = EmptyDb
    /\ idx = 0
    /\ backoff_stage = 0
    /\ js = JNone
    /\ base = BaseNone
    /\ html = HEmpty
    /\ prot = "null"
    /\ wait = 0
    /\ attempts = 0
    /\ reqlog = <<>>
    /\ mirror = MNone
    /\ run = NewRun(0)
    /\ hist = NoHist
    /\ env \in Envs
    /\ call = NoCall
    /\ batch = NoBatch
    /\ lost = NoLoss

\* ----------------------------------------------------------------- actions
\* The locals of one loop iteration are assigned before they are read, so the
\* model clears them where the iteration ends.
ClearItem ==
    /\ js' = JNone
    /\ base' = BaseNone
    /\ html' = HEmpty
    /\ prot' = "null"
    /\ attempts' = 0
    /\ reqlog' = <<>>

ClearProcess ==
    /\ appids' = <<>>
    /\ db' = EmptyDb
    /\ idx' = 0
    /\ backoff_stage' = 0
    /\ wait' = 0
    /\ mirror' = MNone
    /\ run' = NewRun(0)
    /\ ClearItem

Running == pc \notin {"stopped", "done", "aborted"}

\* the process is started: python steam_sync.py
Start ==
    /\ ~Running
    /\ env \in {"restarts", "damage"} \/ pc = "stopped"
    /\ pc' = "mirror"
    /\ ClearProcess
    /\ UNCHANGED <<disk_db, disk_prog, hist, env, call, batch, lost>>

\* the process is stopped from outside, between two steps of main
Stop ==
    /\ Running
    /\ env = "restarts"
    /\ pc' = "stopped"
    /\ ClearProcess
    /\ UNCHANGED <<disk_db, disk_prog, hist, env, call, batch, lost>>

\* the answers the surroundings give to one request
MayFault(r) == r.st \in {"200bad", "err"} => env = "faults"
MayLimit(r, rl) ==
    (r.st = "403" \/ (r.st = "200" /\ r.body = rl))
        => \/ env = "limits" /\ backoff_stage < MaxStage
           \/ env = "faults" /\ backoff_stage < 1

\* fetch_all_mirror: one request of its fetch_json
MirrorAttempt(r) ==
    /\ pc = "mirror"
    /\ MayFault(r)
    /\ LET res == FetchAttempt(r, attempts, MStr403, MNone)
       IN  /\ attempts' = attempts + 1
           /\ reqlog' = Append(reqlog, r)
           /\ IF res.done
              THEN mirror' = res.val /\ pc' = "mirror_ret"
              ELSE UNCHANGED <<mirror, pc>>
    /\ UNCHANGED <<disk_db, disk_prog, appids, db, idx, backoff_stage, js,
                   base, html, prot, wait, run, hist, env, call, batch, lost>>

\* main, lines 374-384; iterating the string "403" raises TypeError
MainInit ==
    /\ pc = "mirror_ret"
    /\ IF mirror = MStr403
       THEN /\ pc' = "aborted"
            /\ UNCHANGED <<appids, db, idx, run, hist>>
       ELSE /\ pc' = "loop"
            /\ appids' = MirrorAppids(mirror)
            /\ db' = LoadCatalog
            /\ idx' = LoadIndex
            /\ run' = NewRun(LoadIndex)
            /\ hist' = IF ~hist.started
                       THEN [started |-> TRUE, seq |-> appids', same |-> TRUE,
                             handled |-> {}]
                       ELSE IF hist.same /\ hist.seq = appids' THEN hist
                       ELSE Diverged
    /\ backoff_stage' = 0
    /\ attempts' = 0
    /\ reqlog' = <<>>
    /\ UNCHANGED <<disk_db, disk_prog, js, base, html, prot, wait, mirror, env, call, batch, lost>>

\* while idx < len(appids)
Loop ==
    /\ pc = "loop"
    /\ pc' = IF idx < Len(appids) THEN "json" ELSE "done"
    /\ wait' = 0
    /\ run' = [run EXCEPT !.ended = "none", !.hook = FALSE]
    /\ UNCHANGED <<disk_db, disk_prog, appids, db, idx, backoff_stage, js,
                   base, html, prot, attempts, reqlog, mirror, hist, env, call, batch, lost>>

appid == appids[idx + 1]

\* fetch_json(sess_api, DETAIL_URL): one request
JsonAttempt(r) ==
    /\ pc = "json"
    /\ MayFault(r)
    /\ MayLimit(r, JStr403)
    /\ LET res == FetchAttempt(r, attempts, JStr403, JNone)
       IN  /\ attempts' = attempts + 1
           /\ reqlog' = Append(reqlog, r)
           /\ IF res.done
              THEN js' = res.val /\ pc' = "json_ret"
              ELSE UNCHANGED <<js, pc>>
    /\ run' = [run EXCEPT !.fetched = TRUE]
    /\ UNCHANGED <<disk_db, disk_prog, appids, db, idx, backoff_stage, base,
                   html, prot, wait, mirror, hist, env, call, batch, lost>>

\* history: whether some labeled block of the fetched page h holds a marker
\* phrase, as a substring or as a standalone term
Marked(h) ==
    IF h.t # "page" THEN "unseen"
    ELSE IF \E i \in DOMAIN h.page.blocks :
                \/ HasDenuvo(Lower(h.page.blocks[i].text))
                \/ HasPhrase(Lower(h.page.blocks[i].text))
         THEN "yes"
    ELSE "no"

\* history: the cursor advanced past the current identifier
Consumed(how) ==
    [run EXCEPT !.consumed = Append(@, [pos |-> idx + 1, id |-> appid,
                                        fetched |-> run.fetched]),
                !.fetched = FALSE,
                !.degraded = FALSE,
                !.analyzer = "notrun",
                !.marked = "unseen",
                !.prev = NoRec,
                !.ended = how,
                !.streak = IF how = "persisted" THEN 0 ELSE @]

Handled(pos) == IF hist.same THEN [hist EXCEPT !.handled = @ \cup {pos}] ELSE hist

\* the sleep of one rate-limit signal: lines 392-396 and 406-410
Backoff ==
    /\ wait' = BackoffWait(backoff_stage)
    /\ backoff_stage' = backoff_stage + 1
    /\ run' = [run EXCEPT !.streak = @ + 1, !.ended = "retry"]
    /\ pc' = "loop"
    /\ ClearItem
    /\ UNCHANGED <<disk_db, disk_prog, appids, db, idx, mirror, hist, env, call, batch, lost>>

\* js == "403": lines 391-396
JsonRateLimited ==
    /\ pc = "json_ret"
    /\ js = JStr403
    /\ Backoff

\* idx += 1; save_progress(idx)
NextIndex(i) == i + 1

\* base = parse_store_api(appid, js or {}); if not base: lines 398-402
JsonSkip ==
    /\ pc = "json_ret"
    /\ js # JStr403
    /\ ~parse_store_api(OrEmpty(js)).ok
    /\ idx' = NextIndex(idx)
    /\ disk_prog' = <<idx'>>
    /\ run' = Consumed("skipped")
    /\ hist' = Handled(idx + 1)
    /\ pc' = "loop"
    /\ ClearItem
    /\ UNCHANGED <<disk_db, appids, db, backoff_stage, wait, mirror, env, call, batch, lost>>

\* base is a record: go on to line 404
JsonParsed ==
    /\ pc = "json_ret"
    /\ js # JStr403
    /\ parse_store_api(OrEmpty(js)).ok
    /\ base' = parse_store_api(OrEmpty(js))
    /\ js' = JNone
    /\ pc' = "html"
    /\ attempts' = 0
    /\ reqlog' = <<>>
    /\ UNCHANGED <<disk_db, disk_prog, appids, db, idx, backoff_stage,
                   html, prot, wait, mirror, run, hist, env, call, batch, lost>>

\* fetch_text(sess_html, HTML_URL): one request
HtmlAttempt(r) ==
    /\ pc = "html"
    /\ MayFault(r)
    /\ MayLimit(r, HStr403)
    /\ LET res == FetchAttempt(r, attempts, HStr403, HEmpty)
       IN  /\ attempts' = attempts + 1
           /\ reqlog' = Append(reqlog, r)
           /\ IF res.done
              THEN html' = res.val /\ pc' = "html_ret"
              ELSE UNCHANGED <<html, pc>>
    /\ UNCHANGED <<disk_db, disk_prog, appids, db, idx, backoff_stage, js,
                   base, prot, wait, mirror, run, hist, env, call, batch, lost>>

\* HtmlRateLimited that gives the identifier up instead of retrying it
HtmlRateLimitedGivesUp ==
    /\ pc = "html_ret"
    /\ html = HStr403
    /\ idx' = NextIndex(idx)
    /\ disk_prog' = <<idx'>>
    /\ run' = Consumed("skipped")
    /\ hist' = Handled(idx + 1)
    /\ pc' = "loop"
    /\ ClearItem
    /\ UNCHANGED <<disk_db, appids, db, backoff_stage, wait, mirror, env, call, batch, lost>>

\* html == "403": lines 405-410
HtmlRateLimited ==
    /\ pc = "html_ret"
    /\ html = HStr403
    /\ Backoff

\* run_analyzer_subprocess: None ("none") when the subprocess fails, else the
\* decision of analyze_app on what its own two fetches gave it
AnalyzerResults(h, b) ==
    {"none"} \cup
    { analyze_app(seen, p, de) :
        seen \in BOOLEAN,
        p \in (IF h.t = "page" THEN {h.page} ELSE MainPages),
        de \in {b.short_description, "plain"} }

\* Classify without the analyzer fallback of lines 418-425
ClassifyNoFallback ==
    /\ pc = "html_ret"
    /\ html # HStr403
    /\ prot' = detect_protection(PlainText(html), html)
    /\ run' = [run EXCEPT !.degraded = (html.t = "empty"),
                          !.marked = Marked(html)]
    /\ html' = HEmpty
    /\ pc' = "persist"
    /\ attempts' = 0
    /\ reqlog' = <<>>
    /\ UNCHANGED <<disk_db, disk_prog, appids, db, idx, backoff_stage, js,
                   base, wait, mirror, hist, env, call, batch, lost>>

\* lines 412-425
Classify ==
    /\ pc = "html_ret"
    /\ html # HStr403
    /\ LET first == detect_protection(PlainText(html), html)
       IN  IF first = "null"
           THEN \E a \in AnalyzerResults(html, base) :
                    /\ prot' = IF a = "none" THEN first ELSE a
                    /\ run' = [run EXCEPT !.degraded = (html.t = "empty"),
                                          !.analyzer = a,
                                          !.marked = Marked(html)]
           ELSE /\ prot' = first
                /\ run' = [run EXCEPT !.degraded = (html.t = "empty"),
                                      !.marked = Marked(html)]
    /\ html' = HEmpty
    /\ pc' = "persist"
    /\ attempts' = 0
    /\ reqlog' = <<>>
    /\ UNCHANGED <<disk_db, disk_prog, appids, db, idx, backoff_stage, js,
                   base, wait, mirror, hist, env, call, batch, lost>>

\* Persist without its save_json: the record stays in memory only
PersistUnsaved ==
    /\ pc = "persist"
    /\ db' = [db EXCEPT ![appid] = Rec(base.title, base.short_description, prot)]
    /\ pc' = "advance"
    /\ UNCHANGED <<disk_db, disk_prog, appids, idx, backoff_stage, js, base,
                   html, prot, wait, attempts, reqlog, mirror, run, hist, env, call, batch, lost>>

\* Persist that keeps an Affirmative verdict the catalog already holds
PersistMerged ==
    /\ pc = "persist"
    /\ db' = [db EXCEPT ![appid] =
                 Rec(base.title, base.short_description,
                     IF db[appid].protection = "true" THEN "true" ELSE prot)]
    /\ disk_db' = db'
    /\ run' = [run EXCEPT !.written = @ \cup {appid}, !.prev = db[appid]]
    /\ hist' = Handled(idx + 1)
    /\ lost' = [lost EXCEPT !.unreadable = FALSE]
    /\ pc' = "advance"
    /\ UNCHANGED <<disk_prog, appids, idx, backoff_stage, js, base, html,
                   prot, wait, attempts, reqlog, mirror, env, call, batch>>

\* Persist whose save_json writes a document that holds the new record alone
PersistAlone ==
    /\ pc = "persist"
    /\ db' = [db EXCEPT ![appid] = Rec(base.title, base.short_description, prot)]
    /\ disk_db' = [EmptyDb EXCEPT ![appid] = db'[appid]]
    /\ run' = [run EXCEPT !.written = @ \cup {appid}, !.prev = db[appid]]
    /\ hist' = Handled(idx + 1)
    /\ lost' = [lost EXCEPT !.unreadable = FALSE]
    /\ pc' = "advance"
    /\ UNCHANGED <<disk_prog, appids, idx, backoff_stage, js, base, html,
                   prot, wait, attempts, reqlog, mirror, env, call, batch>>

\* full = dict(base) ...; db[str(appid)] = full; save_json(OUTPUT, db)
Persist ==
    /\ pc = "persist"
    /\ db' = [db EXCEPT ![appid] = Rec(base.title, base.short_description, prot)]
    /\ disk_db' = db'
    /\ run' = [run EXCEPT !.written = @ \cup {appid}, !.prev = db[appid]]
    /\ hist' = Handled(idx + 1)
    /\ lost' = [lost EXCEPT !.unreadable = FALSE]
    /\ pc' = "advance"
    /\ UNCHANGED <<disk_prog, appids, idx, backoff_stage, js, base, html,
                   prot, wait, attempts, reqlog, mirror, env, call, batch>>

\* idx += 1; save_progress(idx): lines 434-435
Advance ==
    /\ pc = "advance"
    /\ idx' = NextIndex(idx)
    /\ disk_prog' = <<idx'>>
    /\ run' = Consumed("persisted")
    /\ pc' = "tail"
    /\ UNCHANGED <<disk_db, appids, db, backoff_stage, js, base, html, prot,
                   wait, attempts, reqlog, mirror, hist, env, call, batch, lost>>

\* lines 437-442; git_autopush swallows its own failure
EndOfItem ==
    /\ pc = "tail"
    /\ run' = [run EXCEPT !.hook = (idx % AUTO_PUSH_EVERY = 0)]
    /\ backoff_stage' = 0
    /\ pc' = "loop"
    /\ ClearItem
    /\ UNCHANGED <<disk_db, disk_prog, appids, db, idx, wait, mirror, hist, env, call, batch, lost>>

Next ==
    \/ Start
    \/ Stop
    \/ \E r \in Responses(MirrorBodies, MNone) : MirrorAttempt(r)
    \/ MainInit
    \/ Loop
    \/ \E r \in Responses(JsonBodies, JNone) : JsonAttempt(r)
    \/ JsonRateLimited
    \/ JsonSkip
    \/ JsonParsed
    \/ \E r \in Responses(HtmlBodies, HEmpty) : HtmlAttempt(r)
    \/ HtmlRateLimited
    \/ Classify
    \/ Persist
    \/ Advance
    \/ EndOfItem

Spec == Init /\ [][Next]_vars

\* ------------------------------------------------- functions on their own
\* The second specification calls the pure functions of the program on
\* arguments drawn from bounded sets; the process of main stays stopped.
mainvars == <<pc, disk_db, disk_prog, appids, db, idx, backoff_stage, js, base,
              html, prot, wait, attempts, reqlog, mirror, run, hist, env>>

progvars == <<pc, disk_db, disk_prog, appids, db, idx, backoff_stage, js, base,
              html, prot, wait, attempts, reqlog, mirror, run, hist, env,
              batch, lost>>

\* pages: up to MaxBlocks labeled divs, each of either class and of any text,
\* and free text with or without the word denuvo and an anti-cheat name
CallBlocks == {Block(c, a) : c \in {"drm", "anticheat"}, a \in Atoms}
CallPages ==
    { Page(bs, fr) :
        bs \in UNION {[1..n -> CallBlocks] : n \in 0..MaxBlocks},
        fr \in {{"plain"}, {"denuvo"}, {"battleye"}, {"denuvo", "battleye"}} }

\* plain texts handed to detect_protection
CallTexts == {{}, {"plain"}, {"denuvo"}, {"battleye"}, {"denuvo", "battleye"},
              {"Ubisoft Connect"}}

DetectCalls ==
    { Call("detect_protection", [txt |-> t, raw_html |-> h]) :
        t \in CallTexts,
        h \in {HVal("page", p) : p \in CallPages} \cup {HEmpty} }

AnalyzeCalls ==
    { Call("analyze_app", [seen |-> sn, page |-> p, desc |-> de]) :
        sn \in BOOLEAN, p \in CallPages, de \in Atoms }

\* amounts in minor units, and the price blocks made of them
Amounts == {-100, 0, 1, 99, 100, 12345, 99999, 100000, 800000, 1000000,
            123456789}
PriceBlocks ==
    {NoPrice, EmptyPrice} \cup
    { PriceDict(hi, IF hi THEN i ELSE 0, hf, IF hf THEN f ELSE 0) :
        hi \in BOOLEAN, i \in Amounts, hf \in BOOLEAN, f \in Amounts }

PriceCalls == {Call("parse_store_api", [price |-> pb]) : pb \in PriceBlocks}

\* lists of media URLs of every length up to MaxShots: all different, each
\* twice in a row, three in turn, descending, and one URL at every odd place
ShotLists ==
    UNION { { [k \in 1..n |-> k],
              [k \in 1..n |-> (k + 1) \div 2],
              [k \in 1..n |-> ((k - 1) % 3) + 1],
              [k \in 1..n |-> n + 1 - k],
              [k \in 1..n |-> IF k % 2 = 1 THEN 1 ELSE k] } : n \in 0..MaxShots }

CandidateCalls ==
    { Call("build_header_candidates", [header_url |-> h, screenshots |-> sh]) :
        h \in {0, 1, 4, 50}, sh \in ShotLists }

Returned(v) == [call EXCEPT !.done = TRUE, !.ret = v]

CallBuildCandidates ==
    /\ call.fn = "build_header_candidates"
    /\ ~call.done
    /\ call' = Returned(build_header_candidates(call.arg.header_url,
                                                call.arg.screenshots))
    /\ UNCHANGED progvars

CallParsePrice ==
    /\ call.fn = "parse_store_api"
    /\ ~call.done
    /\ call' = Returned(price_fields(call.arg.price))
    /\ UNCHANGED progvars

CallDetect ==
    /\ call.fn = "detect_protection"
    /\ ~call.done
    /\ call' = Returned(detect_protection(call.arg.txt, call.arg.raw_html))
    /\ UNCHANGED progvars

CallAnalyze ==
    /\ call.fn = "analyze_app"
    /\ ~call.done
    /\ call' = Returned(analyze_app(call.arg.seen, call.arg.page, call.arg.desc))
    /\ UNCHANGED progvars

Calls == DetectCalls \cup AnalyzeCalls \cup PriceCalls \cup CandidateCalls

CallInit ==
    /\ pc = "stopped"
    /\ disk_db = EmptyDb
    /\ disk_prog = <<>>
    /\ appids = <<>>
    /\ db = EmptyDb
    /\ idx = 0
    /\ backoff_stage = 0
    /\ js = JNone
    /\ base = BaseNone
    /\ html = HEmpty
    /\ prot = "null"
    /\ wait = 0
    /\ attempts = 0
    /\ reqlog = <<>>
    /\ mirror = MNone
    /\ run = NewRun(0)
    /\ hist = NoHist
    /\ env = "restarts"
    /\ call \in Calls
    /\ batch = NoBatch
    /\ lost = NoLoss

CallNext ==
    \/ CallDetect
    \/ CallAnalyze
    \/ CallParsePrice
    \/ CallBuildCandidates

CallSpec == CallInit /\ [][CallNext]_vars

\* ------------------------------------------------- steam_test.py, run_test
\* The third specification runs run_test once over 1..n, with a progress
\* file and a catalog left by earlier runs; asyncio runs one task at a time
\* and changes task at an await.
Inside == {t \in 1..batch.n : batch.task[t] \in {"json", "html"}}

\* existing = load_existing_data(); the tasks are created
BatchStart ==
    /\ batch.main = "start"
    /\ batch' = [batch EXCEPT !.main = "gather", !.loaded = batch.file,
                               !.existing = batch.file]
    /\ UNCHANGED <<mainvars, call, lost>>

\* Acquire that lets every task in
AcquireUngated(t) ==
    /\ batch.main = "gather"
    /\ batch.task[t] = "new"
    /\ batch' = [batch EXCEPT !.task[t] = "json"]
    /\ UNCHANGED <<mainvars, call, lost>>

\* fetch_app: async with sem, up to the await of fetch_json
Acquire(t) ==
    /\ batch.main = "gather"
    /\ batch.task[t] = "new"
    /\ Cardinality(Inside) < MAX_CONCURRENCY
    /\ batch' = [batch EXCEPT !.task[t] = "json"]
    /\ UNCHANGED <<mainvars, call, lost>>

\* fetch_json returned; parse_store_api gives a record (ok) or None, and then
\* the task returns None and leaves the semaphore
JsonReturns(t, ok) ==
    /\ batch.task[t] = "json"
    /\ batch' = [batch EXCEPT !.task[t] = IF ok THEN "html" ELSE "none"]
    /\ UNCHANGED <<mainvars, call, lost>>

\* fetch_text returned (a page or ""); the task classifies, returns the
\* record and leaves the semaphore, and run_test appends the record to results
HtmlReturns(t) ==
    /\ batch.task[t] = "html"
    /\ batch' = [batch EXCEPT !.task[t] = "rec", !.results = @ \cup {t}]
    /\ UNCHANGED <<mainvars, call, lost>>

\* every task was awaited: the results are put into existing and save_data
\* writes steam_data.json
BatchSave ==
    /\ batch.main = "gather"
    /\ \A t \in 1..batch.n : batch.task[t] \in {"none", "rec"}
    /\ batch' = [batch EXCEPT !.main = "saved",
                               !.existing = @ \cup batch.results,
                               !.file = batch.existing \cup batch.results,
                               !.writes = @ + 1]
    /\ UNCHANGED <<mainvars, call, lost>>

BatchInit ==
    /\ pc = "stopped"
    /\ disk_db = EmptyDb
    /\ disk_prog = <<1>>
    /\ appids = <<>>
    /\ db = EmptyDb
    /\ idx = 0
    /\ backoff_stage = 0
    /\ js = JNone
    /\ base = BaseNone
    /\ html = HEmpty
    /\ prot = "null"
    /\ wait = 0
    /\ attempts = 0
    /\ reqlog = <<>>
    /\ mirror = MNone
    /\ run = NewRun(0)
    /\ hist = NoHist
    /\ env = "restarts"
    /\ call = NoCall
    /\ lost = NoLoss
    /\ batch \in {Batch(n, {1, MaxTasks + 1}) : n \in 0..MaxTasks}

BatchNext ==
    \/ BatchStart
    \/ \E t \in 1..batch.n : Acquire(t)
    \/ \E t \in 1..batch.n, ok \in BOOLEAN : JsonReturns(t, ok)
    \/ \E t \in 1..batch.n : HtmlReturns(t)
    \/ BatchSave

BatchSpec == BatchInit /\ [][BatchNext]_vars

\* ----------------------------------------------- documents that are damaged
\* The fourth specification runs main while its two documents are damaged
\* from outside between the runs: every run goes on until it ends by itself,
\* requests do not fail and the upstream sends no rate-limit signal.

\* steam_data.json is deleted or overwritten with text that is no JSON: no
\* record can be read from it any more
DamageCatalog ==
    /\ ~Running
    /\ env = "damage"
    /\ lost = NoLoss
    /\ \E j \in Ids : disk_db[j].present
    /\ lost' = [unreadable |-> TRUE, held |-> {j \in Ids : disk_db[j].present}]
    /\ disk_db' = EmptyDb
    /\ UNCHANGED <<pc, disk_prog, appids, db, idx, backoff_stage, js, base,
                   html, prot, wait, attempts, reqlog, mirror, run, hist, env,
                   call, batch>>

\* progress.json is deleted or overwritten with text that is no JSON
DamageProgress ==
    /\ ~Running
    /\ env = "damage"
    /\ disk_prog # <<>>
    /\ disk_prog' = <<>>
    /\ UNCHANGED <<pc, disk_db, appids, db, idx, backoff_stage, js, base,
                   html, prot, wait, attempts, reqlog, mirror, run, hist, env,
                   call, batch, lost>>

DamageInit ==
    /\ pc = "stopped"
    /\ disk_db = EmptyDb
    /\ disk_prog = <<>>
    /\ appids = <<>>
    /\ db = EmptyDb
    /\ idx = 0
    /\ backoff_stage = 0
    /\ js = JNone
    /\ base = BaseNone
    /\ html = HEmpty
    /\ prot = "null"
    /\ wait = 0
    /\ attempts = 0
    /\ reqlog = <<>>
    /\ mirror = MNone
    /\ run = NewRun(0)
    /\ hist = NoHist
    /\ env = "damage"
    /\ call = NoCall
    /\ batch = NoBatch
    /\ lost = NoLoss

DamageNext ==
    \/ Start
    \/ \E r \in Responses(MirrorBodies, MNone) : MirrorAttempt(r)
    \/ MainInit
    \/ Loop
    \/ \E r \in Responses(JsonBodies, JNone) : JsonAttempt(r)
    \/ JsonSkip
    \/ JsonParsed
    \/ \E r \in Responses(HtmlBodies, HEmpty) : HtmlAttempt(r)
    \/ Classify
    \/ Persist
    \/ Advance
    \/ EndOfItem
    \/ DamageCatalog
    \/ DamageProgress

DamageSpec == DamageInit /\ [][DamageNext]_vars

\* ------------------------------------------------------------------ claims
\* the process is inside main's loop, or has left it
InLoop == pc \in {"loop", "json", "json_ret", "html", "html_ret", "persist",
                  "advance", "tail", "done"}

\* C1 (Resumability): a run started with persisted cursor C over the sorted
\* list S and run to completion has advanced its cursor past exactly S[C],
\* S[C+1], ..., each once and in that order, after fetching each, and has
\* written no record for an identifier of S[:C].
C1_Resumability ==
    pc = "done" =>
        LET C == run.startC
            n == Len(appids)
        IN  /\ Len(run.consumed) = (IF C < n THEN n - C ELSE 0)
            /\ \A k \in 1..Len(run.consumed) :
                   /\ run.consumed[k].pos = C + k
                   /\ run.consumed[k].id = appids[C + k]
                   /\ run.consumed[k].fetched
            /\ \A i \in 1..Min(C, n) : appids[i] \notin run.written

\* C2 (Crash consistency): wherever the process stops, every position below
\* the persisted cursor has been persisted or skipped as no-data (while the
\* runs iterate one same list), at most one identifier at or above the
\* persisted cursor has a record written by this run, and the persisted
\* cursor is the position the process is working on.
C2_CrashConsistent ==
    /\ hist.same => \A i \in 1..LoadIndex : i \in hist.handled
    /\ InLoop =>
          /\ idx = LoadIndex
          /\ Cardinality({appids[i] : i \in (LoadIndex + 1)..Len(appids)}
                             \cap run.written) <= 1

\* C2 witness: the process was stopped after it wrote the record of the
\* identifier at the cursor and before it advanced the cursor.
C2_Witness ==
    /\ pc = "stopped"
    /\ hist.same
    /\ hist.seq = <<1, 2>>
    /\ LoadIndex = 1
    /\ disk_db[2].present

\* C3 (Cursor bound): the cursor loaded, the in-memory idx and every cursor
\* written back are between 0 and the length of the list of the run.
C3_CursorBound ==
    InLoop => /\ 0 <= idx /\ idx <= Len(appids)
              /\ 0 <= LoadIndex /\ LoadIndex <= Len(appids)

\* a rate-limit signal has reached main
Signal == \/ pc = "json_ret" /\ js = JStr403
          \/ pc = "html_ret" /\ html = HStr403

\* C4 (Backoff state machine), the waits: the k-th rate-limit signal in a row
\* with no completed item in between waits BACKOFF_STEPS[min(k-1, N-1)], the
\* table ascends, and the stage is the number of such signals.
C4_Waits ==
    /\ \A i \in 1..(Len(BACKOFF_STEPS) - 1) : BACKOFF_STEPS[i] <= BACKOFF_STEPS[i + 1]
    /\ (pc = "loop" /\ run.ended = "retry") =>
           /\ run.streak >= 1
           /\ wait = BACKOFF_STEPS[Min(run.streak - 1, Len(BACKOFF_STEPS) - 1) + 1]
    /\ pc \in {"mirror", "mirror_ret"} => backoff_stage = 0
    /\ (InLoop /\ pc # "tail") => backoff_stage = run.streak

\* C4, the steps: within a run the stage changes only by +1 on a rate-limit
\* signal and by reset to 0 at the end of a persisted item.
C4_StageStep ==
    (Running /\ pc' \notin {"stopped", "mirror"} /\ backoff_stage' # backoff_stage) =>
        \/ Signal /\ backoff_stage' = backoff_stage + 1
        \/ pc = "tail" /\ run.ended = "persisted" /\ backoff_stage' = 0

\* C4 (Backoff state machine): the stage starts at 0, rises by one on each
\* rate-limit signal, is reset only when an item was persisted, and the wait of
\* a signal is the table entry of the stage, clamped at the last entry.
C4_Backoff == [](C4_Waits) /\ [][C4_StageStep]_vars

\* C4 witness: after a persisted item, the fourth signal in a row waits the
\* last table entry.
C4_Witness ==
    /\ pc = "loop"
    /\ run.ended = "retry"
    /\ run.written # {}
    /\ run.streak = Len(BACKOFF_STEPS) + 1
    /\ wait = BACKOFF_STEPS[Len(BACKOFF_STEPS)]

\* a fetch call has returned to its caller
FetchReturned == pc \in {"mirror_ret", "json_ret", "html_ret"}
IsFail(r) == r.st \in {"200bad", "err"}
LastResp == reqlog[Len(reqlog)]
RetIs(b) == \/ pc = "mirror_ret" /\ mirror = b
            \/ pc = "json_ret" /\ js = b
            \/ pc = "html_ret" /\ html = b
RetIsNone == \/ pc = "mirror_ret" /\ mirror = MNone
             \/ pc = "json_ret" /\ js = JNone
             \/ pc = "html_ret" /\ html = HEmpty
RetIsLimited == \/ pc = "mirror_ret" /\ mirror = MStr403
                \/ pc = "json_ret" /\ js = JStr403
                \/ pc = "html_ret" /\ html = HStr403
AllFailed == Len(reqlog) = MAX_ATTEMPTS /\ \A i \in 1..Len(reqlog) : IsFail(reqlog[i])

\* what C5 says apart from when Unavailable is returned: at most MAX_ATTEMPTS
\* requests, none after a 200 or a 403, the body at the first 200, "403" at
\* the first 403
C5_Common ==
    /\ 1 <= Len(reqlog) /\ Len(reqlog) <= MAX_ATTEMPTS
    /\ attempts = Len(reqlog)
    /\ \A i \in 1..(Len(reqlog) - 1) : IsFail(reqlog[i])
    /\ LastResp.st = "200" => RetIs(LastResp.body)
    /\ LastResp.st = "403" => RetIsLimited

\* C5 as stated: Unavailable is returned exactly when all MAX_ATTEMPTS
\* attempts ended with neither a usable 200 nor a 403.
C5_AsStated ==
    FetchReturned => (C5_Common /\ (RetIsNone <=> AllFailed))

\* C5 (Fetch client outcome), amended: at most MAX_ATTEMPTS requests; the body
\* at the first usable 200; "403" at the first 403; Unavailable when all
\* MAX_ATTEMPTS attempts failed, and the same value also at once when a 200
\* carries a null (JSON) or empty (text) body; no backoff inside the client.
C5_Returned ==
    FetchReturned =>
        /\ C5_Common
        /\ RetIsNone <=> (AllFailed \/ (LastResp.st = "200" /\ RetIsNone))
        /\ IsFail(LastResp) => (AllFailed /\ RetIsNone)

C5_NoBackoff ==
    (pc \in {"mirror", "json", "html"} /\ pc' # "stopped") =>
        (backoff_stage' = backoff_stage /\ wait' = wait)

\* C5 (Fetch client outcome), amended: the returned value is as C5_Returned
\* says, and no step of a fetch call touches the backoff stage or sleeps a
\* backoff wait.
C5_FetchOutcome == [](C5_Returned) /\ [][C5_NoBackoff]_vars

\* C5 witness: after one failed request the second answers 200 with an empty
\* body, and fetch_text returns "" after two requests.
C5_Witness ==
    /\ pc = "html_ret"
    /\ Len(reqlog) = 2
    /\ IsFail(reqlog[1])
    /\ reqlog[2].st = "200"
    /\ html = HEmpty

\* the detail step yields no record: Unavailable, success false, no data
\* body, or the identifier missing from the payload
NoRecordPayload(j) ==
    \/ j = JNone
    \/ j.t = "obj" /\ (~j.has_id \/ ~j.success \/ ~j.has_data)

C6_SkipStep ==
    (pc = "json_ret" /\ NoRecordPayload(js) /\ pc' # "stopped") =>
        /\ idx' = idx + 1
        /\ disk_prog' = <<idx + 1>>
        /\ db' = db
        /\ disk_db' = disk_db
        /\ appids' = appids
        /\ pc' = "loop"

C6_NextStep ==
    (pc = "loop" /\ pc' # "stopped") =>
        /\ idx' = idx
        /\ pc' = IF idx < Len(appids) THEN "json" ELSE "done"

\* C6 (Skip without write): when the detail step yields no record the cursor
\* advances and is persisted by exactly one, the catalog in memory and on disk
\* is unchanged, and the loop goes on with the next identifier.
C6_Skip == [][C6_SkipStep /\ C6_NextStep]_vars

\* C6 witness: an identifier that has a record in the catalog was skipped.
C6_Witness ==
    /\ pc = "loop"
    /\ run.ended = "skipped"
    /\ disk_db[appids[idx]].present

C7_SignalStep ==
    (Signal /\ pc' # "stopped") =>
        /\ pc' = "loop"
        /\ wait' > 0
        /\ idx' = idx
        /\ appids' = appids
        /\ db' = db
        /\ disk_db' = disk_db
        /\ disk_prog' = disk_prog

C7_WriteStep ==
    (disk_db' # disk_db \/ disk_prog' # disk_prog) =>
        \/ pc = "json_ret" /\ ~Signal
        \/ pc \in {"persist", "advance"}

C7_Retry ==
    (pc = "loop" /\ run.ended = "retry") => idx < Len(appids)

\* C7 (Rate-limit handling): a rate-limit signal makes main sleep and return
\* to the loop test with the cursor, the catalog and the progress file
\* unchanged and the same identifier still to do; the files are written only
\* by a skip or by the persist and advance steps.
C7_RateLimit ==
    [](C7_Retry) /\ [][C7_SignalStep /\ C7_WriteStep /\ C6_NextStep]_vars

\* C7 witness: the page fetch of the second identifier was rate-limited and
\* main is back at the loop test with the cursor still at that identifier.
C7_Witness ==
    /\ pc = "loop"
    /\ run.ended = "retry"
    /\ idx = 1
    /\ disk_prog = <<1>>
    /\ run.streak = 2

\* C8 as stated: the record persisted for an identifier whose page fetch came
\* back empty carries the Inconclusive (null) verdict.
C8_AsStated ==
    (pc = "advance" /\ run.degraded) => disk_db[appid].protection = "null"

\* the verdict main keeps after the analyzer fallback
FallbackVerdict == IF run.analyzer = "true" THEN "true" ELSE "null"

C8_Verdict ==
    /\ (pc = "persist" /\ run.degraded) =>
           /\ run.analyzer # "notrun"
           /\ prot = FallbackVerdict
    /\ (pc = "advance" /\ run.degraded) =>
           /\ disk_db[appid].present
           /\ disk_db[appid].protection = FallbackVerdict

C8_Steps ==
    /\ (pc = "html_ret" /\ html = HEmpty /\ pc' # "stopped") => pc' = "persist"
    /\ (pc = "persist" /\ pc' # "stopped") => pc' = "advance"
    /\ (pc = "advance" /\ pc' # "stopped") =>
           (idx' = idx + 1 /\ disk_prog' = <<idx + 1>>)

\* C8 (HTML degradation), amended: when the page fetch of a parsed identifier
\* comes back empty the run goes on, detect_protection finds nothing, the
\* analyzer fallback is called, the record persisted carries the analyzer's
\* decision when it gives one (true or null) and null when it fails, and the
\* cursor advances.
C8_Degradation == [](C8_Verdict) /\ [][C8_Steps]_vars

\* C8 witness: a record with the Affirmative verdict was persisted for an
\* identifier whose page fetch came back empty.
C8_Witness ==
    /\ pc = "advance"
    /\ run.degraded
    /\ disk_db[appid].protection = "true"

\* C9 (Run completion under failures), its final state: a run that leaves the
\* loop has the persisted cursor equal to the length of its list.
C9_Completes ==
    pc = "done" => LoadIndex = Len(appids)

\* C10 (Publish hook cadence): the hook is called at every cursor advance that
\* makes the cursor a positive multiple of AUTO_PUSH_EVERY, by a persisted or
\* a skipped item, and at no other step.
C10_Cadence ==
    pc = "loop" =>
        IF run.ended \in {"skipped", "persisted"}
        THEN run.hook <=> (idx > 0 /\ idx % AUTO_PUSH_EVERY = 0)
        ELSE ~run.hook

\* C11 (Identifier ordering): the list main iterates with the cursor is
\* strictly ascending (sorted and free of repeated identifiers) for every list
\* the mirror returns, so no identifier is met twice in one pass.
C11_StrictlyAscending ==
    InLoop => \A i \in 1..(Len(appids) - 1) : appids[i] < appids[i + 1]

\* the mirror fetch resolved to Unavailable or to the RateLimited signal
MirrorFailed == mirror \in {MNone, MStr403}

C12_Halts ==
    /\ pc = "aborted" => mirror = MStr403
    /\ pc = "done" => idx >= Len(appids)
    /\ ((pc = "mirror_ret" \/ pc = "aborted" \/ InLoop) /\ MirrorFailed) =>
           /\ pc \in {"mirror_ret", "aborted", "loop", "done"}
           /\ appids = <<>>
           /\ run.consumed = <<>>
           /\ ~run.fetched
           /\ run.written = {}

C12_NoWrite ==
    (pc \in {"mirror_ret", "aborted", "loop", "done"} /\ MirrorFailed) =>
        /\ disk_db' = disk_db
        /\ disk_prog' = disk_prog
        /\ pc' \in {"aborted", "loop", "done", "stopped", "mirror"}

\* C12 (Source unavailable): when the mirror fetch resolves to Unavailable or
\* to the RateLimited signal the run ends without fetching any item and
\* without writing either file, and a run ends before its cursor has reached
\* the end of its list on no other condition.
C12_SourceUnavailable == [](C12_Halts) /\ [][C12_NoWrite]_vars

\* C12 witness: a run over a catalog and a cursor left by an earlier run has
\* ended on a failed mirror fetch.
C12_Witness ==
    /\ pc \in {"done", "aborted"}
    /\ MirrorFailed
    /\ disk_db[1].present
    /\ LoadIndex = 1

\* a run has loaded its list and has not yet worked on an identifier
RunLoaded ==
    /\ pc = "loop"
    /\ run.consumed = <<>>
    /\ ~run.fetched
    /\ run.streak = 0

\* C13 (Catalog reconciliation): once a run has loaded its list and before it
\* processes its first identifier, every key of the catalog is an identifier
\* of that list.
C13_Reconciled ==
    RunLoaded =>
        \A i \in Ids : db[i].present => \E k \in 1..Len(appids) : appids[k] = i

\* C14 (Labeled-block precision): the verdict persisted for an item whose page
\* was fetched is true only if some labeled block of that page holds a marker
\* phrase, also after the analyzer fallback has run.
C14_LabeledOnly ==
    (pc = "advance" /\ run.marked = "no") => disk_db[appid].protection # "true"

\* a phrase of the marker list, standing alone, in any letter case
StandaloneMarker(a) == a \in {"denuvo", "ubisoft", "Ubisoft Connect"}

\* a text that holds the name of a generic anti-cheat service
AntiCheatName(a) == a = "battleye"

\* the page a classifier call was given (NoPage when it was given none)
CallPage ==
    IF call.fn = "detect_protection"
    THEN (IF call.arg.raw_html.t = "page" THEN call.arg.raw_html.page ELSE NoPage)
    ELSE IF call.fn = "analyze_app" /\ call.arg.seen THEN call.arg.page
    ELSE NoPage

\* C15 (Tier-1 match): detect_protection called with page HTML returns true
\* whenever a labeled block holds a phrase of the marker list standing alone,
\* in any letter case, whatever the free text and the plain text argument are.
C15_TierOne ==
    (/\ call.fn = "detect_protection"
     /\ call.done
     /\ call.arg.raw_html.t = "page"
     /\ \E i \in DOMAIN CallPage.blocks : StandaloneMarker(CallPage.blocks[i].text))
        => call.ret = "true"

\* C15 witness: the second labeled block, an anticheat section, holds the
\* phrase in mixed case; the free text holds an anti-cheat name only.
C15_Witness ==
    /\ call.fn = "detect_protection"
    /\ call.done
    /\ call.arg.raw_html =
           HVal("page", Page(<<Block("drm", "plain"),
                               Block("anticheat", "Ubisoft Connect")>>,
                             {"battleye"}))
    /\ call.arg.txt = {}
    /\ call.ret = "true"

\* C16 (Auxiliary evidence never upgrades): when no labeled block holds a
\* marker phrase and the name of an anti-cheat service is in the text given to
\* the classifier or in a labeled block, the verdict is null.
C16_AuxiliaryOnly ==
    (/\ call.fn \in {"detect_protection", "analyze_app"}
     /\ call.done
     /\ Marked(HVal("page", CallPage)) = "no"
     /\ \/ \E a \in PlainText(HVal("page", CallPage)) : AntiCheatName(a)
        \/ call.fn = "detect_protection" /\ \E a \in call.arg.txt : AntiCheatName(a))
        => call.ret = "null"

\* C17 (Verdict domain): the verdict of every record of the catalog, in memory
\* and on disk, and the verdict main is about to store, whether it comes from
\* detect_protection or from the analyzer's decision, is true or null.
C17_VerdictDomain ==
    /\ \A i \in Ids :
           /\ db[i].present => db[i].protection \in {"true", "null"}
           /\ disk_db[i].present => disk_db[i].protection \in {"true", "null"}
    /\ prot \in {"true", "null"}

\* C17 witness: the analyzer's decision true was stored for one identifier
\* while the catalog holds a record with verdict null for another.
C17_Witness ==
    /\ pc = "advance"
    /\ run.analyzer = "true"
    /\ disk_db[appid].protection = "true"
    /\ \E j \in Ids \ {appid} :
           disk_db[j].present /\ disk_db[j].protection = "null"

\* the verdict main computed for the current identifier
NewVerdict == IF run.analyzer = "notrun" THEN "true" ELSE FallbackVerdict

C18_Stored ==
    /\ pc \in {"persist", "advance"} => prot = NewVerdict
    /\ pc = "advance" =>
           disk_db[appid] = Rec(base.title, base.short_description, NewVerdict)

C18_Step ==
    (pc = "persist" /\ pc' # "stopped") =>
        /\ db'[appid] = Rec(base.title, base.short_description, prot)
        /\ \A j \in Ids \ {appid} : db'[j] = db[j]
        /\ disk_db' = db'

\* C18 (Overwrite on re-fetch): the persist step replaces the record of the
\* identifier as a whole by the newly built one, whose verdict is the newly
\* computed one whatever the catalog held before, and leaves the other
\* records alone.
C18_Overwrite == [](C18_Stored) /\ [][C18_Step]_vars

\* C18 witness: an identifier whose stored verdict was true was fetched again,
\* classified Inconclusive, and its record now carries null.
C18_Witness ==
    /\ pc = "advance"
    /\ run.prev.present
    /\ run.prev.protection = "true"
    /\ disk_db[appid].protection = "null"

\* the number a sequence of digit characters writes
RECURSIVE DigitsValue(_)
DigitsValue(ds) ==
    IF ds = <<>> THEN 0
    ELSE 10 * DigitsValue(SubSeq(ds, 1, Len(ds) - 1))
             + (CHOOSE d \in 0..9 : Chr(d) = ds[Len(ds)])

\* d is 'Rp ' followed by the number n written with a dot before every group
\* of three digits and nowhere else, without a leading zero
IsRpDisplay(d, n) ==
    /\ Len(d) > 3
    /\ SubSeq(d, 1, 3) = <<"R", "p", " ">>
    /\ LET b == SubSeq(d, 4, Len(d))
           dots == {k \in DOMAIN b : b[k] = "."}
       IN  /\ dots = {k \in DOMAIN b : k < Len(b) /\ (Len(b) - k + 1) % 4 = 0}
           /\ 1 \notin dots
           /\ \A k \in DOMAIN b \ dots : \E dg \in 0..9 : b[k] = Chr(dg)
           /\ b[1] = "0" => Len(b) = 1
           /\ DigitsValue(SelectSeq(b, LAMBDA c : c # ".")) = n

\* C19 (Price normalization): the chosen amount is initial when positive, else
\* final; a positive chosen amount is stored divided by 100 and displayed as
\* that number with dot thousands separators after 'Rp '; no price block or a
\* chosen amount that is not positive gives 'Free' and 0; the stored amount is
\* never negative; initial 1000000, final 800000 gives 'Rp 10.000' and 10000.
C19_Price ==
    (call.fn = "parse_store_api" /\ call.done) =>
        LET pb == call.arg.price
            i == IF pb.t = "dict" /\ pb.has_initial THEN pb.initial ELSE 0
            f == IF pb.t = "dict" /\ pb.has_final THEN pb.final ELSE 0
            c == IF i > 0 THEN i ELSE f
        IN  /\ call.ret.price_normalized >= 0
            /\ IF pb.t = "dict" /\ c > 0
               THEN /\ call.ret.price_normalized = c \div 100
                    /\ IsRpDisplay(call.ret.price_display, c \div 100)
               ELSE /\ call.ret.price_normalized = 0
                    /\ call.ret.price_display = <<"F", "r", "e", "e">>
            /\ (pb.t = "dict" /\ i = 1000000 /\ f = 800000) =>
                   /\ call.ret.price_normalized = 10000
                   /\ call.ret.price_display =
                          <<"R", "p", " ", "1", "0", ".", "0", "0", "0">>

\* C19 witness: the discounted item of the example has been parsed.
C19_Witness ==
    /\ call.fn = "parse_store_api"
    /\ call.done
    /\ call.arg.price = PriceDict(TRUE, 1000000, TRUE, 800000)
    /\ call.ret.price_display = <<"R", "p", " ", "1", "0", ".", "0", "0", "0">>
    /\ call.ret.price_normalized = 10000

\* C20 (Media candidate invariant): for every header and every list of media
\* URLs the candidate list has at most 7 entries, no URL twice, only URLs of
\* the input and in the order in which the input first has them, and the
\* header first whenever there is one.
C20_Candidates ==
    (call.fn = "build_header_candidates" /\ call.done) =>
        LET h == call.arg.header_url
            out == call.ret
            input == (IF h # 0 THEN <<h>> ELSE <<>>) \o call.arg.screenshots
            FirstAt(u) == CHOOSE k \in DOMAIN input :
                              input[k] = u /\ \A m \in 1..(k - 1) : input[m] # u
        IN  /\ Len(out) <= 7
            /\ \A a, b \in DOMAIN out : a # b => out[a] # out[b]
            /\ \A a \in DOMAIN out : \E k \in DOMAIN input : input[k] = out[a]
            /\ \A a, b \in DOMAIN out : a < b => FirstAt(out[a]) < FirstAt(out[b])
            /\ h # 0 => (Len(out) >= 1 /\ out[1] = h)

\* C20 witness: a header and nine different media URLs gave the header and
\* the first six of them.
C20_Witness ==
    /\ call.fn = "build_header_candidates"
    /\ call.done
    /\ call.arg.header_url = 50
    /\ call.arg.screenshots = <<1, 2, 3, 4, 5, 6, 7, 8, 9>>
    /\ call.ret = <<50, 1, 2, 3, 4, 5, 6>>

C21_Gate == Cardinality(Inside) <= MAX_CONCURRENCY

C21_OneWrite ==
    /\ batch.writes <= 1
    /\ batch.writes = 0 =>
           /\ batch.main # "saved"
           /\ batch.main = "gather" => batch.file = batch.loaded
    /\ batch.writes = 1 =>
           /\ batch.main = "saved"
           /\ \A t \in 1..batch.n : batch.task[t] \in {"none", "rec"}
           /\ batch.file =
                  batch.loaded \cup {t \in 1..batch.n : batch.task[t] = "rec"}
    /\ ~ENABLED BatchNext => batch.writes = 1

C21_NoCursor == disk_prog' = disk_prog

\* C21 (Bounded-concurrency batch): at most MAX_CONCURRENCY tasks are inside
\* the fetch-parse-classify section in every state of every interleaving; the
\* catalog is written once, after every task has finished, and then holds the
\* records of all identifiers that gave one (beside those it held); the
\* progress file is never written.
C21_Batch == [](C21_Gate /\ C21_OneWrite) /\ [][C21_NoCursor]_vars

\* C21 witness: the gate is full, with tasks at either fetch, and another
\* task waits at the semaphore.
C21_Witness ==
    /\ Cardinality(Inside) = MAX_CONCURRENCY
    /\ \E t \in 1..batch.n : batch.task[t] = "new"
    /\ \E t \in 1..batch.n : batch.task[t] = "json"
    /\ \E t \in 1..batch.n : batch.task[t] = "html"

\* C22 (Backoff stage bound): in every reachable state the backoff stage is an
\* index of the escalation table, 0 .. N-1 with N = Len(BACKOFF_STEPS); a
\* rate-limit signal received at stage N-1 leaves the stage at N-1.
\* main adds one to backoff_stage at every signal (lines 395 and 409) and
\* clamps only the index it reads the table with (lines 392 and 406), so the
\* stage is N after N signals in a row.
C22_StageBound == backoff_stage \in 0 .. (Len(BACKOFF_STEPS) - 1)

\* C23 (HTML retry step): for an identifier whose detail was fetched and
\* parsed, a rate-limited page fetch is followed by the backoff sleep and then
\* by a retry of the page fetch for that identifier with the record already
\* parsed; the item does not go back to the detail fetch.
\* In main the branch of line 405 ends with continue (line 410), which goes to
\* the loop test of line 386: the detail is fetched and parsed again.
C23_Step ==
    (pc = "html_ret" /\ html = HStr403 /\ pc' # "stopped")
        => (pc' = "html" /\ base' = base)
C23_HtmlRetry == [][C23_Step]_vars

\* C24 (Standalone marker match): the tier-1 test matches every marker term,
\* denuvo included, at word boundaries: detect_protection called with page
\* HTML whose labeled blocks hold a marker term only inside a longer word (no
\* block holds one standing alone) does not return true.
\* Line 219 tests 'denuvo' in b, a substring test, before the word-boundary
\* search of line 222.
C24_Standalone ==
    (/\ call.fn = "detect_protection"
     /\ call.done
     /\ call.arg.raw_html.t = "page"
     /\ \A i \in DOMAIN CallPage.blocks : ~StandaloneMarker(CallPage.blocks[i].text))
        => call.ret = "null"

\* C25 (Free sentinel agreement): for every price input the stored amount is 0
\* exactly when the display string is 'Free'; a chosen amount of 1..99 minor
\* units does not give amount 0 with another display.
\* For a chosen amount of 1..99 line 100 takes the positive branch, line 101
\* stores 99 // 100 = 0 and line 102 displays 'Rp 0'.
C25_FreeAgrees ==
    (call.fn = "parse_store_api" /\ call.done) =>
        (call.ret.price_normalized = 0
            <=> call.ret.price_display = <<"F", "r", "e", "e">>)

\* the positions of main inside the iteration of the identifier at the cursor
ItemPositions == {"json", "json_ret", "html", "html_ret", "persist", "advance"}

\* C26 (Frame of one item step): every step of the iteration of the identifier
\* at the cursor, whether the iteration ends in persist, skip or rate-limit
\* retry, leaves every catalog entry of another identifier as it was, in the
\* in-memory map and in the persisted document, and leaves the cursor or adds
\* one to it; the steps of the loop between two iterations change neither
\* catalog nor cursor.
C26_Step ==
    /\ (pc \in ItemPositions /\ pc' # "stopped") =>
           /\ \A j \in Ids \ {appid} : db'[j] = db[j] /\ disk_db'[j] = disk_db[j]
           /\ idx' \in {idx, idx + 1}
           /\ disk_prog' \in {disk_prog, <<idx + 1>>}
    /\ (pc \in {"loop", "tail"} /\ pc' # "stopped") =>
           /\ db' = db
           /\ disk_db' = disk_db
           /\ idx' = idx
           /\ disk_prog' = disk_prog
C26_Frame == [][C26_Step]_vars

\* C26 witness: the record of the identifier at the cursor has been written
\* while the map and the document hold the record of another identifier.
C26_Witness ==
    /\ pc = "advance"
    /\ appid \in run.written
    /\ \E j \in Ids \ {appid} : db[j].present /\ disk_db[j].present

\* C27 (Unreadable persisted state): a run that finds the progress file
\* missing or unparseable starts at cursor 0; a run that finds the catalog
\* file missing or unparseable starts from an empty catalog, and its first
\* write of the document leaves in the stored catalog the records written in
\* this run and no other: a record the unreadable document held for another
\* identifier, below the cursor or not, is not carried over.
C27_Started ==
    (lost.unreadable /\ Running) =>
        /\ \A j \in Ids : ~db[j].present
        /\ run.written = {}
C27_Step ==
    /\ (pc = "mirror_ret" /\ pc' = "loop") =>
           /\ disk_prog = <<>> => (idx' = 0 /\ run'.startC = 0)
           /\ lost.unreadable => db' = EmptyDb
    /\ (pc = "persist" /\ pc' = "advance" /\ lost.unreadable) =>
           /\ ~lost'.unreadable
           /\ {j \in Ids : disk_db'[j].present} = run'.written
           /\ run'.written = {appid}
           /\ \A j \in Ids \ {appid} :
                  j \in lost.held => ~disk_db'[j].present
C27_Unreadable == [](C27_Started) /\ [][C27_Step]_vars

\* C27 witness: a run that started at a cursor above 0 from an unreadable
\* catalog has made its first write; the record the document held for an
\* identifier below the cursor is gone.
C27_Witness ==
    /\ pc = "advance"
    /\ ~lost.unreadable
    /\ run.startC > 0
    /\ run.written = {appid}
    /\ \E k \in 1..run.startC :
           /\ appids[k] # appid
           /\ appids[k] \in lost.held
           /\ ~disk_db[appids[k]].present

====
